---- MODULE Spec2Model ----
(***************************************************************************)
(* Viewing-slot scheduling and booking subsystem of vermietenheute-backend *)
(* (app/api/viewings.py, app/models/*.py, app/core/scheduler.py).          *)
(*                                                                         *)
(* The persistent store (PostgreSQL through SQLAlchemy sessions, one       *)
(* session per request, autocommit off) is the shared state.  A request    *)
(* handler runs in a worker of the thread pool: the queries it makes       *)
(* before it writes are one step (they change nothing), its db.commit()    *)
(* is a second step, and steps of different workers interleave.  There is  *)
(* no lock, no SELECT ... FOR UPDATE and no unique constraint on bookings  *)
(* or on (slot_id, application_id) in the schema.                          *)
(*                                                                         *)
(* Time is counted in minutes.                                             *)
(***************************************************************************)
EXTENDS Integers, Sequences, FiniteSets, TLC

VARIABLES
    now,          \* datetime.utcnow()
    slots,        \* table viewing_slots: slot id -> row, or NoSlot
    bookings,     \* table bookings: sequence of rows, the index is the id
    invitations,  \* table viewing_invitations: sequence of rows, the index is the id
    pc,           \* per worker: the request it is serving between its reads and its commit
    resp,         \* the HTTP response produced by the last step, or NoResp
    sched,        \* the reminder job: where its cycle stands and its session's unflushed flags
    sent          \* per booking id: how many reminders of each type were delivered

vars == <<now, slots, bookings, invitations, pc, resp, sched, sent>>

----------------------------------------------------------------------------
(* Bounds of the model *)

NumProcs == 2
MaxSlots == 1
MaxBookings == 2
MaxInvitations == 2
MaxCap == 2

(* Program constants *)

Null == -1
CancelDeadlineMinutes == 60

Procs == 1..NumProcs
SlotIds == 1..MaxSlots
Emails == {"e1", "e2"}
Apps == {"a1", "a2"}
StartTimes == {1600, 1660}
EndTimes == {1660}
SlotTypes == {"individual", "group"}
AccessTypes == {"public", "invited"}

\* Application lookup: the applicant's email copied into a booking on accept.
AppEmail(a) == IF a = "a1" THEN "e1" ELSE "e2"

\* The instants the clock visits: each start time s, the minute after it,
\* its cancellation deadline s - 60 and the minute after that.
Instants == {1540, 1541, 1600, 1601, 1661}

\* The reminder job between two cycles, after n cycles.
SchedIdle(n) ==
    [pc |-> "idle", now |-> Null, todo |-> {}, flag24 |-> {}, flag1 |-> {}, cycles |-> n]

NoneSent == [b \in 1..MaxBookings |-> [r24 |-> 0, r1 |-> 0]]

NoSlot == [exists |-> FALSE]
Idle == [op |-> "idle"]
NoResp == [op |-> "none"]

\* HTTPException details of viewings.py
DetailSlotNotFound == "Besichtigungstermin nicht gefunden"
DetailInvitedOnly == "Dieser Termin ist nur fuer eingeladene Bewerber verfuegbar"
DetailNoSpots == "Keine Plaetze mehr verfuegbar"
DetailAlreadyBooked == "Sie haben diesen Termin bereits gebucht"
DetailPast == "Dieser Termin liegt bereits in der Vergangenheit"
DetailBookingNotFound == "Buchung nicht gefunden"
DetailAlreadyCancelled == "Buchung wurde bereits storniert"
DetailDeadline == "Stornierung nicht mehr moeglich (weniger als 1 Stunde vor Termin)"
DetailAlreadyInvited == "Bewerber wurde bereits zu diesem Termin eingeladen"
DetailInvitationNotFound == "Einladung nicht gefunden oder ungueltig"
DetailAlreadyResponded == "Einladung wurde bereits beantwortet"
DetailSlotGone == "Termin nicht mehr verfuegbar"
DetailNoSpotsInvite == "Leider sind keine Plaetze mehr verfuegbar"
DetailDeclined == "Einladung abgelehnt"
\* An exception no handler catches: the framework answers 500
DetailIntegrity == "Internal Server Error"

Response(op, target, status, detail) ==
    [op |-> op, target |-> target, status |-> status, detail |-> detail]

----------------------------------------------------------------------------
(* Queries *)

BookingIds == 1..Len(bookings)
InvitationIds == 1..Len(invitations)

\* db.query(Booking).filter(slot_id == s, confirmed == True, cancelled_at == None)
ActiveConfirmed(s) ==
    {b \in BookingIds : /\ bookings[b].slot_id = s
                        /\ bookings[b].confirmed
                        /\ bookings[b].cancelled_at = Null}

ConfirmedCount(s) == Cardinality(ActiveConfirmed(s))

\* db.query(Booking).filter(slot_id == s, email == e, cancelled_at == None)
ExistingBooking(s, e) ==
    {b \in BookingIds : /\ bookings[b].slot_id = s
                        /\ bookings[b].email = e
                        /\ bookings[b].cancelled_at = Null}

\* db.query(ViewingInvitation).filter(slot_id == s, application_id == a)
ExistingInvitation(s, a) ==
    {i \in InvitationIds : /\ invitations[i].slot_id = s
                           /\ invitations[i].application_id = a}

\* Requests that passed their checks and have an insert still to commit.
PendingInserts(op) == Cardinality({p \in Procs : pc[p].op = op})

----------------------------------------------------------------------------
(* Rows *)

\* Booking(...): confirmed defaults to True, the reminder flags to False
NewBooking(s, e, app, inv) ==
    [slot_id |-> s, email |-> e, confirmed |-> TRUE,
     application_id |-> app, invitation_id |-> inv,
     reminder_24h_sent |-> FALSE, reminder_1h_sent |-> FALSE,
     cancelled_at |-> Null]

\* A cancel that sets the timestamp and leaves confirmed as it was
CancelRowTimestampOnly(row, t) == [row EXCEPT !.cancelled_at = t]

\* Booking.cancel
CancelRow(row, t) == [row EXCEPT !.cancelled_at = t, !.confirmed = FALSE]

\* ViewingInvitation(...): status defaults to pending
NewInvitation(s, a) ==
    [slot_id |-> s, application_id |-> a, status |-> "pending", responded_at |-> Null]

\* ViewingInvitation.accept
AcceptRow(row, t) == [row EXCEPT !.status = "accepted", !.responded_at = t]

\* ViewingInvitation.decline
DeclineRow(row, t) == [row EXCEPT !.status = "declined", !.responded_at = t]

----------------------------------------------------------------------------
Init ==
    /\ now = CHOOSE t \in Instants : \A u \in Instants : t <= u
    /\ slots = [s \in SlotIds |-> NoSlot]
    /\ bookings = <<>>
    /\ invitations = <<>>
    /\ pc = [p \in Procs |-> Idle]
    /\ resp = NoResp
    /\ sched = SchedIdle(0)
    /\ sent = NoneSent

\* The clock moves on.
Tick ==
    /\ \E t \in Instants : t > now /\ now' = t
    /\ resp' = NoResp
    /\ UNCHANGED <<slots, bookings, invitations, pc, sched, sent>>

----------------------------------------------------------------------------
(* Slot Store *)

\* ViewingSlotBase.end_after_start
EndAfterStart(start, end) == end > start

\* The capacity stored as requested, whatever the slot type
ClampNone(slot_type, max_attendees) == max_attendees

\* ViewingSlotBase.validate_max_attendees and create_viewing_slot: an
\* individual slot is persisted with max_attendees = 1
ClampMaxAttendees(slot_type, max_attendees) ==
    IF slot_type = "individual" THEN 1 ELSE max_attendees

SlotRow(start, end, slot_type, access_type, max_attendees) ==
    [exists |-> TRUE, start_time |-> start, end_time |-> end,
     slot_type |-> slot_type, access_type |-> access_type,
     max_attendees |-> max_attendees]

\* POST /viewings
CreateSlot(s, start, end, slot_type, access_type, max_attendees) ==
    /\ ~slots[s].exists
    /\ IF ~EndAfterStart(start, end)
       THEN /\ resp' = Response("create", s, 422, "Endzeit muss nach Startzeit liegen")
            /\ UNCHANGED slots
       ELSE /\ slots' = [slots EXCEPT ![s] =
                            SlotRow(start, end, slot_type, access_type,
                                    ClampMaxAttendees(slot_type, max_attendees))]
            /\ resp' = Response("create", s, 201, "")
    /\ UNCHANGED <<now, bookings, invitations, pc, sched, sent>>

\* ViewingSlotUpdate: every field is optional and there is no validator.
\* A field is given as {} (unset) or {value}.
Optional(S) == {{}} \cup {{v} : v \in S}

UpdateInputs ==
    [start_time : Optional(StartTimes), end_time : Optional(EndTimes),
     slot_type : Optional(SlotTypes), access_type : Optional(AccessTypes),
     max_attendees : Optional(1..MaxCap)]

\* The updates that leave slot_type and end_time unset.
CoreUpdateInputs == {u \in UpdateInputs : u.slot_type = {} /\ u.end_time = {}}

Given(old, field) == IF field = {} THEN old ELSE CHOOSE v \in field : TRUE

\* update_viewing_slot: for field, value in update_data.items(): setattr(slot, field, value)
ApplyUpdate(row, upd) ==
    [row EXCEPT !.start_time = Given(@, upd.start_time),
                !.end_time = Given(@, upd.end_time),
                !.slot_type = Given(@, upd.slot_type),
                !.access_type = Given(@, upd.access_type),
                !.max_attendees = Given(@, upd.max_attendees)]

\* An update that clears the reminder flags of the slot's bookings when it
\* is given a start time
UpdateSlotResetFlags(s, upd) ==
    /\ slots[s].exists
    /\ slots' = [slots EXCEPT ![s] = ApplyUpdate(@, upd)]
    /\ bookings' = [b \in DOMAIN bookings |->
                      IF bookings[b].slot_id = s /\ upd.start_time # {}
                      THEN [bookings[b] EXCEPT !.reminder_24h_sent = FALSE,
                                               !.reminder_1h_sent = FALSE]
                      ELSE bookings[b]]
    /\ resp' = Response("update", s, 200, "")
    /\ UNCHANGED <<now, invitations, pc, sched, sent>>

\* PATCH /viewings/{slot_id}
UpdateSlot(s, upd) ==
    /\ slots[s].exists
    /\ slots' = [slots EXCEPT ![s] = ApplyUpdate(@, upd)]
    /\ resp' = Response("update", s, 200, "")
    /\ UNCHANGED <<now, bookings, invitations, pc, sched, sent>>

\* "HH:MM" of ViewingSlotBulkCreate as <<hour, minute>>; the request's date
\* is the day that starts at minute 0.
TimesOfDay == {<<13, 50>>, <<14, 35>>}
Durations == {0, 15, 20, 90}

\* ViewingSlotBulkCreate.end_after_start compares the two strings: with two
\* digits each, hour first, then minute
TimeStrLeq(a, b) == a[1] < b[1] \/ (a[1] = b[1] /\ a[2] <= b[2])

\* base_date.replace(hour=..., minute=...)
PeriodInstant(t) == t[1] * 60 + t[2]

\* The loop of create_bulk_slots stopping one slot early when the last slot
\* would end exactly at period_end
RECURSIVE BulkLoopEndExcluded(_, _, _)
BulkLoopEndExcluded(current_start, slot_duration, period_end) ==
    IF current_start + slot_duration < period_end
    THEN <<[start_time |-> current_start, end_time |-> current_start + slot_duration]>>
            \o BulkLoopEndExcluded(current_start + slot_duration, slot_duration, period_end)
    ELSE <<>>

\* while current_start + slot_duration <= period_end: one slot, then
\* current_start += slot_duration
RECURSIVE BulkLoop(_, _, _)
BulkLoop(current_start, slot_duration, period_end) ==
    IF current_start + slot_duration <= period_end
    THEN <<[start_time |-> current_start, end_time |-> current_start + slot_duration]>>
            \o BulkLoop(current_start + slot_duration, slot_duration, period_end)
    ELSE <<>>

\* create_bulk_slots: the created_slots list
BulkSlots(time_start, time_end, duration, slot_type, access_type, max_attendees) ==
    LET period_start == PeriodInstant(time_start)
        period_end == PeriodInstant(time_end)
        capped == IF slot_type = "individual" THEN 1 ELSE max_attendees
        spans == IF duration = 0
                 THEN <<[start_time |-> period_start, end_time |-> period_end]>>
                 ELSE BulkLoop(period_start, duration, period_end)
    IN [j \in 1..Len(spans) |->
           SlotRow(spans[j].start_time, spans[j].end_time, slot_type, access_type, capped)]

\* The ids the store has not given out, and the j-th of them.
FreeIds == {s \in DOMAIN slots : ~slots[s].exists}
NthFree(j) == CHOOSE s \in FreeIds : Cardinality({t \in FreeIds : t < s}) = j - 1

\* The body of a bulk request.
BulkRequest(time_start, time_end, duration, slot_type, access_type, max_attendees) ==
    [time_start |-> time_start, time_end |-> time_end, duration |-> duration,
     slot_type |-> slot_type, access_type |-> access_type,
     max_attendees |-> max_attendees]

\* POST /viewings/bulk; the answer lists the created slots ("items")
CreateBulkSlots(time_start, time_end, duration, slot_type, access_type, max_attendees) ==
    LET req == BulkRequest(time_start, time_end, duration, slot_type, access_type,
                           max_attendees)
        rows == BulkSlots(time_start, time_end, duration, slot_type, access_type,
                          max_attendees)
    IN /\ IF TimeStrLeq(time_end, time_start)
          THEN /\ resp' = [op |-> "bulk", target |-> req, status |-> 422,
                           detail |-> "Endzeit muss nach Startzeit liegen",
                           items |-> <<>>]
               /\ UNCHANGED slots
          ELSE /\ Len(rows) <= Cardinality(FreeIds)
               /\ slots' = [s \in DOMAIN slots |->
                              IF \E j \in 1..Len(rows) : s = NthFree(j)
                              THEN rows[CHOOSE j \in 1..Len(rows) : s = NthFree(j)]
                              ELSE slots[s]]
               /\ resp' = [op |-> "bulk", target |-> req, status |-> 201,
                           detail |-> "", items |-> [j \in 1..Len(rows) |-> NthFree(j)]]
       /\ UNCHANGED <<now, bookings, invitations, pc, sched, sent>>

----------------------------------------------------------------------------
(* Booking Manager *)

\* book_viewing_slot with a capacity check that lets a full slot through
BookCheckFullAdmitted(s, e) ==
    IF ~slots[s].exists THEN <<404, DetailSlotNotFound>>
    ELSE IF slots[s].access_type # "public" THEN <<403, DetailInvitedOnly>>
    ELSE IF ConfirmedCount(s) > slots[s].max_attendees THEN <<400, DetailNoSpots>>
    ELSE IF ExistingBooking(s, e) # {} THEN <<400, DetailAlreadyBooked>>
    ELSE IF slots[s].start_time < now THEN <<400, DetailPast>>
    ELSE <<201, "">>

\* book_viewing_slot with the access check moved behind the capacity,
\* duplicate and start-time checks
BookCheckAccessLast(s, e) ==
    IF ~slots[s].exists THEN <<404, DetailSlotNotFound>>
    ELSE IF ConfirmedCount(s) >= slots[s].max_attendees THEN <<400, DetailNoSpots>>
    ELSE IF ExistingBooking(s, e) # {} THEN <<400, DetailAlreadyBooked>>
    ELSE IF slots[s].start_time < now THEN <<400, DetailPast>>
    ELSE IF slots[s].access_type # "public" THEN <<403, DetailInvitedOnly>>
    ELSE <<201, "">>

\* book_viewing_slot, the checks in the order of the code; "" when all pass
BookCheck(s, e) ==
    IF ~slots[s].exists THEN <<404, DetailSlotNotFound>>
    ELSE IF slots[s].access_type # "public" THEN <<403, DetailInvitedOnly>>
    ELSE IF ConfirmedCount(s) >= slots[s].max_attendees THEN <<400, DetailNoSpots>>
    ELSE IF ExistingBooking(s, e) # {} THEN <<400, DetailAlreadyBooked>>
    ELSE IF slots[s].start_time < now THEN <<400, DetailPast>>
    ELSE <<201, "">>

\* POST /viewings/{slot_id}/book, up to db.add(booking)
BookRead(p, s, e) ==
    /\ pc[p] = Idle
    /\ LET r == BookCheck(s, e) IN
       IF r[1] # 201
       THEN /\ resp' = Response("book", <<s, e>>, r[1], r[2])
            /\ UNCHANGED pc
       ELSE /\ Len(bookings) + PendingInserts("book") + PendingInserts("accept")
                 < MaxBookings
            /\ pc' = [pc EXCEPT ![p] = [op |-> "book", slot_id |-> s, email |-> e]]
            /\ resp' = NoResp
    /\ UNCHANGED <<now, slots, bookings, invitations, sched, sent>>

\* db.commit() of book_viewing_slot
BookCommit(p) ==
    /\ pc[p].op = "book"
    /\ IF slots[pc[p].slot_id].exists
       THEN /\ bookings' = Append(bookings,
                                  NewBooking(pc[p].slot_id, pc[p].email, Null, Null))
            /\ resp' = Response("book", <<pc[p].slot_id, pc[p].email>>, 201, "")
       ELSE \* the slot was deleted meanwhile: the INSERT violates the foreign key
            /\ UNCHANGED bookings
            /\ resp' = Response("book", <<pc[p].slot_id, pc[p].email>>, 500, DetailIntegrity)
    /\ pc' = [pc EXCEPT ![p] = Idle]
    /\ UNCHANGED <<now, slots, invitations, sched, sent>>

\* cancel_booking with the deadline instant itself refused
CancelCheckDeadlineExcluded(s, b) ==
    IF b \notin BookingIds \/ (b \in BookingIds /\ bookings[b].slot_id # s)
    THEN <<404, DetailBookingNotFound>>
    ELSE IF bookings[b].cancelled_at # Null THEN <<400, DetailAlreadyCancelled>>
    ELSE IF ~slots[s].exists THEN <<404, DetailSlotNotFound>>
    ELSE IF now >= slots[s].start_time - CancelDeadlineMinutes THEN <<400, DetailDeadline>>
    ELSE <<200, "">>

\* cancel_booking, the checks in the order of the code
CancelCheck(s, b) ==
    IF b \notin BookingIds \/ (b \in BookingIds /\ bookings[b].slot_id # s)
    THEN <<404, DetailBookingNotFound>>
    ELSE IF bookings[b].cancelled_at # Null THEN <<400, DetailAlreadyCancelled>>
    ELSE IF ~slots[s].exists THEN <<404, DetailSlotNotFound>>
    ELSE IF now > slots[s].start_time - CancelDeadlineMinutes THEN <<400, DetailDeadline>>
    ELSE <<200, "">>

\* DELETE /viewings/{slot_id}/bookings/{booking_id}, up to the deadline check
CancelRead(p, s, b) ==
    /\ pc[p] = Idle
    /\ LET r == CancelCheck(s, b) IN
       IF r[1] # 200
       THEN /\ resp' = Response("cancel", <<s, b>>, r[1], r[2])
            /\ UNCHANGED pc
       ELSE /\ pc' = [pc EXCEPT ![p] =
                        [op |-> "cancel", slot_id |-> s, booking |-> b]]
            /\ resp' = NoResp
    /\ UNCHANGED <<now, slots, bookings, invitations, sched, sent>>

\* booking.cancel() (cancelled_at = datetime.utcnow()) and db.commit():
\* UPDATE bookings SET cancelled_at, confirmed
CancelCommit(p) ==
    /\ pc[p].op = "cancel"
    /\ bookings' = [bookings EXCEPT ![pc[p].booking] = CancelRow(@, now)]
    /\ resp' = Response("cancel", <<pc[p].slot_id, pc[p].booking>>, 200, "")
    /\ pc' = [pc EXCEPT ![p] = Idle]
    /\ UNCHANGED <<now, slots, invitations, sched, sent>>

----------------------------------------------------------------------------
(* Invitation Manager *)

\* invite_applicant, the checks in the order of the code (the landlord owns
\* the property and the application belongs to it)
InviteCheck(s, a) ==
    IF ~slots[s].exists THEN <<404, DetailSlotNotFound>>
    ELSE IF ExistingInvitation(s, a) # {} THEN <<400, DetailAlreadyInvited>>
    ELSE <<200, "">>

\* POST /viewings/{slot_id}/invite, up to db.add(invitation)
InviteRead(p, s, a) ==
    /\ pc[p] = Idle
    /\ LET r == InviteCheck(s, a) IN
       IF r[1] # 200
       THEN /\ resp' = Response("invite", <<s, a>>, r[1], r[2])
            /\ UNCHANGED pc
       ELSE /\ Len(invitations) + PendingInserts("invite") < MaxInvitations
            /\ pc' = [pc EXCEPT ![p] = [op |-> "invite", slot_id |-> s, application_id |-> a]]
            /\ resp' = NoResp
    /\ UNCHANGED <<now, slots, bookings, invitations, sched, sent>>

\* db.commit() of invite_applicant
InviteCommit(p) ==
    /\ pc[p].op = "invite"
    /\ IF slots[pc[p].slot_id].exists
       THEN /\ invitations' = Append(invitations,
                                     NewInvitation(pc[p].slot_id, pc[p].application_id))
            /\ resp' = Response("invite", <<pc[p].slot_id, pc[p].application_id>>, 200, "")
       ELSE \* the slot was deleted meanwhile: the INSERT violates the foreign key
            /\ UNCHANGED invitations
            /\ resp' = Response("invite", <<pc[p].slot_id, pc[p].application_id>>,
                                500, DetailIntegrity)
    /\ pc' = [pc EXCEPT ![p] = Idle]
    /\ UNCHANGED <<now, slots, bookings, sched, sent>>

\* respond_to_invitation with a capacity check that lets a full slot through
RespondCheckFullAdmitted(i, response) ==
    IF i \notin InvitationIds THEN <<404, DetailInvitationNotFound>>
    ELSE IF invitations[i].status # "pending" THEN <<400, DetailAlreadyResponded>>
    ELSE IF ~slots[invitations[i].slot_id].exists THEN <<404, DetailSlotGone>>
    ELSE IF slots[invitations[i].slot_id].start_time < now THEN <<400, DetailPast>>
    ELSE IF response = "decline" THEN <<200, DetailDeclined>>
    ELSE IF ConfirmedCount(invitations[i].slot_id)
              > slots[invitations[i].slot_id].max_attendees
         THEN <<400, DetailNoSpotsInvite>>
    ELSE <<200, "">>

\* respond_to_invitation, the checks in the order of the code; the token of
\* invitation i is i
RespondCheck(i, response) ==
    IF i \notin InvitationIds THEN <<404, DetailInvitationNotFound>>
    ELSE IF invitations[i].status # "pending" THEN <<400, DetailAlreadyResponded>>
    ELSE IF ~slots[invitations[i].slot_id].exists THEN <<404, DetailSlotGone>>
    ELSE IF slots[invitations[i].slot_id].start_time < now THEN <<400, DetailPast>>
    ELSE IF response = "decline" THEN <<200, DetailDeclined>>
    ELSE IF ConfirmedCount(invitations[i].slot_id)
              >= slots[invitations[i].slot_id].max_attendees
         THEN <<400, DetailNoSpotsInvite>>
    ELSE <<200, "">>

\* POST /viewings/invitation/{token}/respond, up to the capacity check
RespondRead(p, i, response) ==
    /\ pc[p] = Idle
    /\ LET r == RespondCheck(i, response) IN
       IF r[1] # 200
       THEN /\ resp' = Response("respond", <<i, response>>, r[1], r[2])
            /\ UNCHANGED pc
       ELSE /\ response = "accept" =>
                 Len(bookings) + PendingInserts("book") + PendingInserts("accept")
                   < MaxBookings
            /\ pc' = [pc EXCEPT ![p] = [op |-> response, invitation |-> i]]
            /\ resp' = NoResp
    /\ UNCHANGED <<now, slots, bookings, invitations, sched, sent>>

\* A decline whose closing HTTPException carries a client-error status
DeclineCommitBadRequest(p) ==
    /\ pc[p].op = "decline"
    /\ invitations' = [invitations EXCEPT ![pc[p].invitation] = DeclineRow(@, now)]
    /\ resp' = Response("respond", <<pc[p].invitation, "decline">>, 400, DetailDeclined)
    /\ pc' = [pc EXCEPT ![p] = Idle]
    /\ UNCHANGED <<now, slots, bookings, sched, sent>>

\* invitation.decline() (responded_at = datetime.utcnow()), db.commit() and
\* raise HTTPException(status_code=HTTP_200_OK)
DeclineCommit(p) ==
    /\ pc[p].op = "decline"
    /\ invitations' = [invitations EXCEPT ![pc[p].invitation] = DeclineRow(@, now)]
    /\ resp' = Response("respond", <<pc[p].invitation, "decline">>, 200, DetailDeclined)
    /\ pc' = [pc EXCEPT ![p] = Idle]
    /\ UNCHANGED <<now, slots, bookings, sched, sent>>

\* invitation.accept() (responded_at = datetime.utcnow()), db.add(booking)
\* and db.commit()
AcceptCommit(p) ==
    /\ pc[p].op = "accept"
    /\ LET i == pc[p].invitation
           inv == invitations[i]
       IN /\ invitations' = [invitations EXCEPT ![i] = AcceptRow(@, now)]
          /\ bookings' = Append(bookings,
                                NewBooking(inv.slot_id, AppEmail(inv.application_id),
                                           inv.application_id, i))
          /\ resp' = Response("respond", <<i, "accept">>, 200, "")
    /\ pc' = [pc EXCEPT ![p] = Idle]
    /\ UNCHANGED <<now, slots, sched, sent>>

----------------------------------------------------------------------------
(* Slot deletion *)

\* A row the database has removed; its id is not given out again.
Removed == [slot_id |-> Null]

\* db.query(ViewingInvitation).filter(slot_id == s, status == "pending")
PendingInvitations(s) ==
    {i \in InvitationIds : /\ invitations[i].slot_id = s
                           /\ invitations[i].status = "pending"}

\* DELETE /viewings/{slot_id}: the slot lookup, the query for the active
\* bookings and the cancellation mails to their holders
DeleteRead(p, s) ==
    /\ pc[p] = Idle
    /\ IF ~slots[s].exists
       THEN /\ resp' = Response("delete", s, 404, DetailSlotNotFound)
            /\ UNCHANGED pc
       ELSE /\ pc' = [pc EXCEPT ![p] = [op |-> "delete_bookings", slot_id |-> s,
                                        bookings |-> ActiveConfirmed(s)]]
            /\ resp' = NoResp
    /\ UNCHANGED <<now, slots, bookings, invitations, sched, sent>>

\* The query for the pending invitations and the cancellation mails to
\* their applicants
DeleteInvitations(p) ==
    /\ pc[p].op = "delete_bookings"
    /\ pc' = [pc EXCEPT ![p] = [op |-> "delete", slot_id |-> pc[p].slot_id,
                                bookings |-> pc[p].bookings,
                                invitations |-> PendingInvitations(pc[p].slot_id)]]
    /\ resp' = NoResp
    /\ UNCHANGED <<now, slots, bookings, invitations, sched, sent>>

\* db.delete(slot); db.commit(): the slot goes and its bookings and
\* invitations go with it (cascade and ON DELETE CASCADE)
DeleteCommit(p) ==
    /\ pc[p].op = "delete"
    /\ LET s == pc[p].slot_id IN
       IF slots[s].exists
       THEN /\ slots' = [slots EXCEPT ![s] = NoSlot]
            /\ bookings' = [b \in DOMAIN bookings |->
                              IF bookings[b].slot_id = s THEN Removed ELSE bookings[b]]
            /\ invitations' = [i \in DOMAIN invitations |->
                                 IF invitations[i].slot_id = s THEN Removed
                                 ELSE invitations[i]]
            /\ resp' = Response("delete", s, 204, "")
       ELSE \* another request deleted the slot meanwhile: the DELETE matches no row
            /\ UNCHANGED <<slots, bookings, invitations>>
            /\ resp' = Response("delete", s, 500, DetailIntegrity)
    /\ pc' = [pc EXCEPT ![p] = Idle]
    /\ UNCHANGED <<now, sched, sent>>

----------------------------------------------------------------------------
(* Reminder Scheduler *)

\* Bounds of the scheduler model
MaxCycles == 2

\* send_reminders: timedelta(hours=23), timedelta(hours=25),
\* timedelta(minutes=50), timedelta(minutes=70)
Window24Lo == 1380
Window24Hi == 1500
Window1Lo == 50
Window1Hi == 70

\* The instants the clock visits where the scheduler runs: for the start
\* time 1600, 25 hours before it (100), inside its 24h window (160), after
\* that window (221), 70 minutes before it (1530) and after its 1h window
\* (1551); 160 and 221 lie in the 24h window of the start time 1660, 1600
\* in its 1h window.
SchedInstants == {100, 160, 221, 1530, 1551, 1600}

\* ViewingSlot.start_time.between(lo, hi): SQL BETWEEN, both ends included
Between(x, lo, hi) == lo <= x /\ x <= hi

\* The 24h query of send_reminders at the cycle's now
Upcoming24(t) ==
    {b \in BookingIds :
        /\ slots[bookings[b].slot_id].exists
        /\ Between(slots[bookings[b].slot_id].start_time, t + Window24Lo, t + Window24Hi)
        /\ ~bookings[b].reminder_24h_sent
        /\ bookings[b].confirmed
        /\ bookings[b].cancelled_at = Null}

\* The 1h query of send_reminders at the cycle's now
Upcoming1h(t) ==
    {b \in BookingIds :
        /\ slots[bookings[b].slot_id].exists
        /\ Between(slots[bookings[b].slot_id].start_time, t + Window1Lo, t + Window1Hi)
        /\ ~bookings[b].reminder_1h_sent
        /\ bookings[b].confirmed
        /\ bookings[b].cancelled_at = Null}

\* The clock moves on between and during the scheduler's cycles.
TickSched ==
    /\ \E t \in SchedInstants : t > now /\ now' = t
    /\ resp' = NoResp
    /\ UNCHANGED <<slots, bookings, invitations, pc, sched, sent>>

\* The job wakes: now = datetime.utcnow() and the 24h query
SchedStart ==
    /\ sched.pc = "idle"
    /\ sched.cycles < MaxCycles
    /\ sched' = [sched EXCEPT !.pc = "loop24", !.now = now, !.todo = Upcoming24(now)]
    /\ resp' = NoResp
    /\ UNCHANGED <<now, slots, bookings, invitations, pc, sent>>

\* One pass of the 24h loop that sets the flag whatever the dispatch returned
SchedSend24FlagAlways(b, ok) ==
    /\ sched.pc = "loop24"
    /\ b \in sched.todo
    /\ sched' = [sched EXCEPT !.todo = @ \ {b}, !.flag24 = @ \cup {b}]
    /\ sent' = IF ok THEN [sent EXCEPT ![b].r24 = @ + 1] ELSE sent
    /\ resp' = NoResp
    /\ UNCHANGED <<now, slots, bookings, invitations, pc>>

\* One pass of "for booking in upcoming_24h": the dispatch returns True
\* (ok), or returns False or raises; the flag is set on the session's object
\* only.
SchedSend24(b, ok) ==
    /\ sched.pc = "loop24"
    /\ b \in sched.todo
    /\ sched' = [sched EXCEPT !.todo = @ \ {b},
                              !.flag24 = IF ok THEN @ \cup {b} ELSE @]
    /\ sent' = IF ok THEN [sent EXCEPT ![b].r24 = @ + 1] ELSE sent
    /\ resp' = NoResp
    /\ UNCHANGED <<now, slots, bookings, invitations, pc>>

\* The 1h query, with the now of the cycle's start
SchedQuery1h ==
    /\ sched.pc = "loop24"
    /\ sched.todo = {}
    /\ sched' = [sched EXCEPT !.pc = "loop1h", !.todo = Upcoming1h(sched.now)]
    /\ resp' = NoResp
    /\ UNCHANGED <<now, slots, bookings, invitations, pc, sent>>

\* One pass of "for booking in upcoming_1h"
SchedSend1h(b, ok) ==
    /\ sched.pc = "loop1h"
    /\ b \in sched.todo
    /\ sched' = [sched EXCEPT !.todo = @ \ {b},
                              !.flag1 = IF ok THEN @ \cup {b} ELSE @]
    /\ sent' = IF ok THEN [sent EXCEPT ![b].r1 = @ + 1] ELSE sent
    /\ resp' = NoResp
    /\ UNCHANGED <<now, slots, bookings, invitations, pc>>

\* The rows after the session's flags are flushed: UPDATE bookings SET
\* reminder_24h_sent / reminder_1h_sent for the objects the cycle changed
FlushFlags(rows, flag24, flag1) ==
    [b \in DOMAIN rows |->
        [rows[b] EXCEPT !.reminder_24h_sent = @ \/ b \in flag24,
                        !.reminder_1h_sent = @ \/ b \in flag1]]

\* db.commit() at the end of the cycle (ok), or its failure: the except
\* branch rolls the session back and nothing of the cycle is persisted
SchedCommit(ok) ==
    /\ sched.pc = "loop1h"
    /\ sched.todo = {}
    /\ bookings' = IF ok THEN FlushFlags(bookings, sched.flag24, sched.flag1)
                         ELSE bookings
    /\ sched' = SchedIdle(sched.cycles + 1)
    /\ resp' = NoResp
    /\ UNCHANGED <<now, slots, invitations, pc, sent>>

\* A store with one public group slot and one booking per email on it, as
\* create and two public bookings leave it.
InitSched ==
    /\ now = CHOOSE t \in SchedInstants : \A u \in SchedInstants : t <= u
    /\ \E start \in StartTimes :
          slots = [s \in SlotIds |->
                     IF s = 1 THEN SlotRow(start, 1660 + 60, "group", "public", 2)
                              ELSE NoSlot]
    /\ bookings = <<NewBooking(1, "e1", Null, Null), NewBooking(1, "e2", Null, Null)>>
    /\ invitations = <<>>
    /\ pc = [p \in Procs |-> Idle]
    /\ resp = NoResp
    /\ sched = SchedIdle(0)
    /\ sent = NoneSent

\* The updates that move the slot only.
RescheduleInputs ==
    {u \in UpdateInputs : /\ u.start_time # {} /\ u.end_time = {} /\ u.slot_type = {}
                          /\ u.access_type = {} /\ u.max_attendees = {}}

----------------------------------------------------------------------------
\* The booking requests of the public flow, with the landlord's slot edits.
Next ==
    \/ Tick
    \/ \E s \in SlotIds, start \in StartTimes, end \in EndTimes,
          ac \in AccessTypes, m \in 1..MaxCap : CreateSlot(s, start, end, "group", ac, m)
    \/ \E s \in SlotIds, upd \in CoreUpdateInputs : UpdateSlot(s, upd)
    \/ \E p \in Procs, s \in SlotIds, e \in Emails : BookRead(p, s, e)
    \/ \E p \in Procs : BookCommit(p)
    \/ \E p \in Procs, s \in SlotIds, b \in 1..MaxBookings : CancelRead(p, s, b)
    \/ \E p \in Procs : CancelCommit(p)

Spec == Init /\ [][Next]_vars

\* The invitation flow beside the public flow.
NextInvite ==
    \/ Tick
    \/ \E s \in SlotIds, start \in StartTimes, end \in EndTimes,
          ac \in AccessTypes, m \in 1..MaxCap : CreateSlot(s, start, end, "group", ac, m)
    \/ \E p \in Procs, s \in SlotIds, a \in Apps : InviteRead(p, s, a)
    \/ \E p \in Procs : InviteCommit(p)
    \/ \E p \in Procs, i \in 1..MaxInvitations, r \in {"accept", "decline"} :
          RespondRead(p, i, r)
    \/ \E p \in Procs : DeclineCommit(p)
    \/ \E p \in Procs : AcceptCommit(p)
    \/ \E p \in Procs, s \in SlotIds, e \in Emails : BookRead(p, s, e)
    \/ \E p \in Procs : BookCommit(p)

SpecInvite == Init /\ [][NextInvite]_vars

\* The reminder job beside cancellations and the landlord's rescheduling.
NextSched ==
    \/ TickSched
    \/ SchedStart
    \/ \E b \in 1..MaxBookings, ok \in BOOLEAN : SchedSend24(b, ok)
    \/ SchedQuery1h
    \/ \E b \in 1..MaxBookings, ok \in BOOLEAN : SchedSend1h(b, ok)
    \/ \E ok \in BOOLEAN : SchedCommit(ok)
    \/ \E s \in SlotIds, b \in 1..MaxBookings : CancelRead(1, s, b)
    \/ CancelCommit(1)
    \/ \E s \in SlotIds, upd \in RescheduleInputs : UpdateSlot(s, upd)

SpecSched == InitSched /\ [][NextSched]_vars

\* One public slot that has not started, of capacity below the number of
\* workers, and no booking yet.
InitRace ==
    /\ now = CHOOSE t \in Instants : \A u \in Instants : t <= u
    /\ \E start \in StartTimes, k \in 1..MaxCap :
          /\ k < NumProcs
          /\ slots = [s \in SlotIds |->
                        IF s = 1 THEN SlotRow(start, 1660 + 60, "group", "public", k)
                                 ELSE NoSlot]
    /\ bookings = <<>>
    /\ invitations = <<>>
    /\ pc = [p \in Procs |-> Idle]
    /\ resp = NoResp
    /\ sched = SchedIdle(0)
    /\ sent = NoneSent

\* Concurrent book() calls against that slot.
NextRace ==
    \/ Tick
    \/ \E p \in Procs, s \in SlotIds, e \in Emails : BookRead(p, s, e)
    \/ \E p \in Procs : BookCommit(p)

SpecRace == InitRace /\ [][NextRace]_vars

\* The store of InitSched at any of the scheduler's instants.
InitTwice ==
    /\ now \in SchedInstants
    /\ \E start \in StartTimes :
          slots = [s \in SlotIds |->
                     IF s = 1 THEN SlotRow(start, 1660 + 60, "group", "public", 2)
                              ELSE NoSlot]
    /\ bookings = <<NewBooking(1, "e1", Null, Null), NewBooking(1, "e2", Null, Null)>>
    /\ invitations = <<>>
    /\ pc = [p \in Procs |-> Idle]
    /\ resp = NoResp
    /\ sched = SchedIdle(0)
    /\ sent = NoneSent

\* The reminder scan run in immediate succession: nothing else happens.
NextTwice ==
    \/ SchedStart
    \/ \E b \in 1..MaxBookings, ok \in BOOLEAN : SchedSend24(b, ok)
    \/ SchedQuery1h
    \/ \E b \in 1..MaxBookings, ok \in BOOLEAN : SchedSend1h(b, ok)
    \/ \E ok \in BOOLEAN : SchedCommit(ok)

SpecTwice == InitTwice /\ [][NextTwice]_vars

\* The landlord's slot management on a store with room for a bulk request.
MaxBulkSlots == 3
BulkSlotIds == 1..MaxBulkSlots

\* The updates that move the start to the latest start time, make the slot
\* an individual one or raise the capacity.
SlotUpdateInputs ==
    {u \in UpdateInputs : /\ u.access_type = {} /\ u.end_time = {}
                          /\ u.start_time \in {{}, {1660}}
                          /\ u.slot_type \in {{}, {"individual"}}
                          /\ u.max_attendees \in {{}, {MaxCap}}}

InitSlots ==
    /\ now = CHOOSE t \in Instants : \A u \in Instants : t <= u
    /\ slots = [s \in BulkSlotIds |-> NoSlot]
    /\ bookings = <<>>
    /\ invitations = <<>>
    /\ pc = [p \in Procs |-> Idle]
    /\ resp = NoResp
    /\ sched = SchedIdle(0)
    /\ sent = NoneSent

NextSlots ==
    \/ \E s \in BulkSlotIds, start \in StartTimes, end \in EndTimes,
          st \in SlotTypes, m \in 1..MaxCap : CreateSlot(s, start, end, st, "public", m)
    \/ \E d \in {0, 20}, st \in SlotTypes, m \in 1..MaxCap :
          CreateBulkSlots(<<13, 50>>, <<14, 35>>, d, st, "public", m)
    \/ \E s \in BulkSlotIds, upd \in SlotUpdateInputs : UpdateSlot(s, upd)

SpecSlots == InitSlots /\ [][NextSlots]_vars

\* Slot creation alone, single and in bulk.
NextBulk ==
    \/ \E s \in BulkSlotIds, start \in StartTimes, end \in EndTimes, m \in 1..MaxCap :
          CreateSlot(s, start, end, "group", "public", m)
    \/ \E ts \in TimesOfDay, te \in TimesOfDay, d \in Durations,
          st \in SlotTypes, m \in 1..MaxCap :
          CreateBulkSlots(ts, te, d, st, "public", m)

SpecBulk == InitSlots /\ [][NextBulk]_vars

\* The updates of the capacity and the access type only.
CapacityUpdateInputs ==
    {u \in UpdateInputs : /\ u.start_time = {} /\ u.end_time = {} /\ u.slot_type = {}
                          /\ (u.max_attendees # {} \/ u.access_type # {})}

\* A public group slot with room for MaxCap and one pending invitation on
\* it, as create and invite leave them.
InitLower ==
    /\ now = CHOOSE t \in Instants : \A u \in Instants : t <= u
    /\ slots = [s \in SlotIds |->
                  IF s = 1 THEN SlotRow(1600, 1660, "group", "public", MaxCap)
                           ELSE NoSlot]
    /\ bookings = <<>>
    /\ invitations = <<NewInvitation(1, "a1")>>
    /\ pc = [p \in Procs |-> Idle]
    /\ resp = NoResp
    /\ sched = SchedIdle(0)
    /\ sent = NoneSent

\* Bookings, responses and cancellations while the landlord changes the
\* capacity.
NextLower ==
    \/ Tick
    \/ \E s \in SlotIds, upd \in CapacityUpdateInputs : UpdateSlot(s, upd)
    \/ \E p \in Procs, s \in SlotIds, e \in Emails : BookRead(p, s, e)
    \/ \E p \in Procs : BookCommit(p)
    \/ \E p \in Procs, i \in 1..MaxInvitations : RespondRead(p, i, "accept")
    \/ \E p \in Procs : AcceptCommit(p)
    \/ \E s \in SlotIds, b \in 1..MaxBookings : CancelRead(1, s, b)
    \/ CancelCommit(1)

SpecLower == InitLower /\ [][NextLower]_vars

\* A public slot with one pending invitation, while the landlord deletes it.
NextDelete ==
    \/ \E p \in Procs, s \in SlotIds, e \in Emails : BookRead(p, s, e)
    \/ \E p \in Procs : BookCommit(p)
    \/ \E p \in Procs, s \in SlotIds, a \in Apps : InviteRead(p, s, a)
    \/ \E p \in Procs : InviteCommit(p)
    \/ \E p \in Procs, s \in SlotIds : DeleteRead(p, s)
    \/ \E p \in Procs : DeleteInvitations(p)
    \/ \E p \in Procs : DeleteCommit(p)

SpecDelete == InitLower /\ [][NextDelete]_vars

\* Bookings, cancellations, invitations and responses on a public slot with
\* one pending invitation.
NextRequests ==
    \/ Tick
    \/ \E p \in Procs, s \in SlotIds, e \in Emails : BookRead(p, s, e)
    \/ \E p \in Procs : BookCommit(p)
    \/ \E s \in SlotIds, b \in 1..MaxBookings : CancelRead(1, s, b)
    \/ CancelCommit(1)
    \/ \E s \in SlotIds, a \in Apps : InviteRead(1, s, a)
    \/ InviteCommit(1)
    \/ \E i \in 1..MaxInvitations, r \in {"accept", "decline"} : RespondRead(1, i, r)
    \/ DeclineCommit(1)
    \/ AcceptCommit(1)

SpecRequests == InitLower /\ [][NextRequests]_vars

----------------------------------------------------------------------------
(* Application lifecycle *)

\* scheduler = AsyncIOScheduler(): the module's scheduler object, not running
SchedStopped == [SchedIdle(0) EXCEPT !.pc = "stopped"]

\* A worker before the startup event has run
Starting == [op |-> "starting"]

\* start_scheduler(): registers send_reminders with a 15-minute interval
\* trigger and starts the scheduler.  No module of the application calls it.
StartScheduler ==
    /\ sched.pc = "stopped"
    /\ sched' = SchedIdle(0)
    /\ resp' = NoResp
    /\ UNCHANGED <<now, slots, bookings, invitations, pc, sent>>

\* startup_event(): prints two lines; afterwards the server takes requests
StartupEvent ==
    /\ \A p \in Procs : pc[p] = Starting
    /\ pc' = [p \in Procs |-> Idle]
    /\ resp' = NoResp
    /\ UNCHANGED <<now, slots, bookings, invitations, sched, sent>>

\* The application from its start, with a public slot that begins more than
\* 25 hours later.
InitApp ==
    /\ now = CHOOSE t \in SchedInstants : \A u \in SchedInstants : t <= u
    /\ slots = [s \in SlotIds |->
                  IF s = 1 THEN SlotRow(1660, 1660 + 60, "group", "public", MaxCap)
                           ELSE NoSlot]
    /\ bookings = <<>>
    /\ invitations = <<>>
    /\ pc = [p \in Procs |-> Starting]
    /\ resp = NoResp
    /\ sched = SchedStopped
    /\ sent = NoneSent

NextApp ==
    \/ StartupEvent
    \/ TickSched
    \/ \E p \in Procs, s \in SlotIds, e \in Emails : BookRead(p, s, e)
    \/ \E p \in Procs : BookCommit(p)
    \/ \E p \in Procs, s \in SlotIds, b \in 1..MaxBookings : CancelRead(p, s, b)
    \/ \E p \in Procs : CancelCommit(p)

\* The startup event runs, time passes and every request that was taken up
\* is finished.
SpecApp ==
    /\ InitApp
    /\ [][NextApp]_vars
    /\ WF_vars(StartupEvent)
    /\ WF_vars(TickSched)
    /\ \A p \in Procs : WF_vars(BookCommit(p)) /\ WF_vars(CancelCommit(p))

----------------------------------------------------------------------------
(* Claims *)

\* C1: in every reachable state, for every slot, the number of bookings
\* with confirmed = true and cancelled_at = null is at most the slot's
\* max_attendees.
C1_CapacityInvariant ==
    \A s \in SlotIds :
        slots[s].exists => ConfirmedCount(s) <= slots[s].max_attendees

\* C2: of the concurrent book() calls with distinct emails against one
\* public slot of capacity k that has not started and had no booking, never
\* more than k succeed: the emails that hold a booking on the slot are at
\* most k.
C2_ConcurrentBooksWithinCapacity ==
    \A s \in SlotIds :
        slots[s].exists =>
            Cardinality({bookings[b].email : b \in ActiveConfirmed(s)})
                <= slots[s].max_attendees

\* C3: in every reachable state, for every slot and every email there is at
\* most one booking with cancelled_at = null, whether the bookings come from
\* the public book operation or from an accepted invitation.
C3_OneActiveBookingPerEmail ==
    \A s \in SlotIds, e \in Emails : Cardinality(ExistingBooking(s, e)) <= 1

\* The active bookings of (s, e) that were there before the call that resp
\* answers: a successful book() has just appended its own row.
BookedBefore(s, e) ==
    IF resp.status = 201 THEN ExistingBooking(s, e) \ {Len(bookings)}
    ELSE ExistingBooking(s, e)

\* C4: a book() call for a (slot, email) that already has an active booking
\* from an earlier successful call always fails with the Conflict error
\* ("already booked") and with no other error, whatever the slot's remaining
\* capacity.
C4_SecondBookIsConflict ==
    (resp.op = "book" /\ BookedBefore(resp.target[1], resp.target[2]) # {})
        => (resp.status = 400 /\ resp.detail = DetailAlreadyBooked)

\* C5: for an active booking b on a slot starting at T, cancel() passes its
\* checks when now <= T - 1h (T - 1h included) and then sets cancelled_at;
\* when now > T - 1h it fails with 400 "too late to cancel" and the booking
\* stays active.
C5_CancelDeadline ==
    /\ \A b \in BookingIds :
          LET s == bookings[b].slot_id IN
          (slots[s].exists /\ bookings[b].cancelled_at = Null) =>
              CancelCheck(s, b) =
                  IF now <= slots[s].start_time - CancelDeadlineMinutes
                  THEN <<200, "">> ELSE <<400, DetailDeadline>>
    /\ (resp.op = "cancel" /\ resp.detail = DetailDeadline) =>
          LET s == resp.target[1]
              b == resp.target[2]
          IN /\ resp.status = 400
             /\ now > slots[s].start_time - CancelDeadlineMinutes
             /\ bookings[b].cancelled_at = Null
             /\ bookings[b].confirmed
    /\ (resp.op = "cancel" /\ resp.status = 200) =>
          /\ bookings[resp.target[2]].cancelled_at = now
          /\ ~bookings[resp.target[2]].confirmed

\* C5 witness: a cancellation answered 200 at exactly T - 1h.
C5_Witness ==
    /\ resp.op = "cancel"
    /\ resp.status = 200
    /\ slots[resp.target[1]].exists
    /\ now = slots[resp.target[1]].start_time - CancelDeadlineMinutes
    /\ bookings[resp.target[2]].cancelled_at = now

\* C6: cancellation is one-way: once a booking has cancelled_at set, no later
\* step changes its cancelled_at or sets confirmed back to true, and a later
\* cancel() on it is answered 400 "already cancelled".
C6_CancelOneWay ==
    [][/\ \A b \in BookingIds :
             bookings[b].cancelled_at # Null =>
                 /\ bookings'[b].cancelled_at = bookings[b].cancelled_at
                 /\ ~bookings'[b].confirmed
       /\ \A b \in BookingIds :
             (/\ bookings[b].cancelled_at # Null
              /\ resp'.op = "cancel"
              /\ resp' # resp
              /\ resp'.target = <<bookings[b].slot_id, b>>)
                 => (resp'.status = 400 /\ resp'.detail = DetailAlreadyCancelled)
      ]_vars

\* C7: over any sequence of scheduler cycles, failed dispatches and failed
\* commits included, each booking is delivered the 24h reminder at most once
\* and the 1h reminder at most once.
C7_ReminderAtMostOnce ==
    \A b \in 1..MaxBookings : sent[b].r24 <= 1 /\ sent[b].r1 <= 1

\* C8: when the reminder scan runs twice in immediate succession, the second
\* run selects no booking that the first run has delivered the same reminder
\* to, so each reminder goes out once.
C8_SecondRunSkipsDelivered ==
    (sched.cycles = 1 /\ sched.pc # "idle") =>
        \A b \in sched.todo :
            IF sched.pc = "loop24" THEN sent[b].r24 = 0 ELSE sent[b].r1 = 0

\* C9 as claimed: whenever the slot's active confirmed count equals
\* max_attendees, respondByToken(accept) on a pending invitation fails with
\* the capacity error.
C9_FullAcceptIsCapacityError ==
    \A i \in InvitationIds :
        LET s == invitations[i].slot_id IN
        (/\ invitations[i].status = "pending"
         /\ slots[s].exists
         /\ ConfirmedCount(s) = slots[s].max_attendees)
            => RespondCheck(i, "accept") = <<400, DetailNoSpotsInvite>>

\* C9 as amended: whenever the slot's active confirmed count equals
\* max_attendees, respondByToken(accept) on a pending invitation fails, with
\* the capacity error if the slot has not started and with the past-slot
\* error if it has; a call that failed with the capacity error left the
\* invitation pending with responded_at unset and no booking linked to it.
C9_FullAcceptFails ==
    /\ \A i \in InvitationIds :
          LET s == invitations[i].slot_id IN
          (/\ invitations[i].status = "pending"
           /\ slots[s].exists
           /\ ConfirmedCount(s) = slots[s].max_attendees)
              => RespondCheck(i, "accept") =
                    IF slots[s].start_time < now THEN <<400, DetailPast>>
                    ELSE <<400, DetailNoSpotsInvite>>
    /\ (resp.op = "respond" /\ resp.detail = DetailNoSpotsInvite) =>
          LET i == resp.target[1] IN
          /\ resp.status = 400
          /\ resp.target[2] = "accept"
          /\ invitations[i].status = "pending"
          /\ invitations[i].responded_at = Null
          /\ \A b \in BookingIds : bookings[b].invitation_id # i
          /\ ConfirmedCount(invitations[i].slot_id)
                >= slots[invitations[i].slot_id].max_attendees

\* C9 witness: an accept on a full slot was just refused with the capacity
\* error.
C9_Witness ==
    /\ resp.op = "respond"
    /\ resp.detail = DetailNoSpotsInvite
    /\ invitations[resp.target[1]].status = "pending"
    /\ ConfirmedCount(invitations[resp.target[1]].slot_id)
          = slots[invitations[resp.target[1]].slot_id].max_attendees

\* C10: in every reachable state an invitation is accepted if and only if
\* exactly one booking has its invitation_id, and no booking is linked to a
\* pending or declined invitation.
C10_AcceptedIffOneBooking ==
    \A i \in InvitationIds :
        LET linked == {b \in BookingIds : bookings[b].invitation_id = i} IN
        /\ invitations[i].status = "accepted" <=> Cardinality(linked) = 1
        /\ invitations[i].status # "accepted" => linked = {}

\* C11: an invitation's status only moves pending -> accepted or pending ->
\* declined: once it is accepted or declined no step changes its status or
\* its responded_at, and a respondByToken call on it is answered with the
\* invalid-state error.
C11_InvitationTerminal ==
    [][/\ \A i \in InvitationIds :
             invitations[i].status # "pending" =>
                 /\ invitations'[i].status = invitations[i].status
                 /\ invitations'[i].responded_at = invitations[i].responded_at
       /\ \A i \in InvitationIds :
             (/\ invitations[i].status # "pending"
              /\ resp'.op = "respond"
              /\ resp' # resp
              /\ resp'.target[1] = i)
                 => (resp'.status = 400 /\ resp'.detail = DetailAlreadyResponded)
      ]_vars

\* C12: in every reachable state there is at most one invitation per
\* (slot, application) pair, concurrent invite() calls for the same pair
\* included.
C12_OneInvitationPerPair ==
    \A s \in SlotIds, a \in Apps : Cardinality(ExistingInvitation(s, a)) <= 1

\* C13: a reminder is never dispatched for a booking that is cancelled at
\* the moment of dispatch: every step that delivers a reminder to booking b
\* finds b with cancelled_at = null.
C13_NoReminderAfterCancel ==
    [][\A b \in BookingIds :
          sent'[b] # sent[b] => bookings[b].cancelled_at = Null]_vars

\* C14: the public book() on an existing slot whose access_type is not
\* public is answered 403 Forbidden and creates no booking, whatever the
\* slot's capacity, start time or existing bookings: no request passes its
\* checks on such a slot and every answer on it is the Forbidden one.
C14_NonPublicIsForbidden ==
    [][\A s \in SlotIds :
          (slots[s].exists /\ slots[s].access_type # "public") =>
              /\ \A p \in Procs :
                    ~(pc[p] = Idle /\ pc'[p].op = "book" /\ pc'[p].slot_id = s)
              /\ (resp'.op = "book" /\ resp'.status # 201 /\ resp'.target[1] = s)
                    => /\ resp'.status = 403
                       /\ resp'.detail = DetailInvitedOnly
                       /\ bookings' = bookings
                       /\ pc' = pc
      ]_vars

\* C14 witness: book() was refused with Forbidden on an invited slot that is
\* also full and has already started.
C14_Witness ==
    /\ resp.op = "book"
    /\ resp.status = 403
    /\ slots[resp.target[1]].access_type = "invited"
    /\ ConfirmedCount(resp.target[1]) = slots[resp.target[1]].max_attendees
    /\ slots[resp.target[1]].start_time < now

\* C15: bulkCreate over [time_start, time_end) with slot_duration d > 0
\* creates exactly floor((time_end - time_start) / d) slots, each of length
\* d, the first starting at time_start, each next one starting where the
\* previous ends, none ending after time_end; with d = 0 it creates exactly
\* one slot from time_start to time_end.
C15_BulkCreateSlots ==
    [][(resp'.op = "bulk" /\ resp'.status = 201) =>
          LET created == {s \in DOMAIN slots : ~slots[s].exists /\ slots'[s].exists}
              items == resp'.items
              d == resp'.target.duration
              lo == resp'.target.time_start[1] * 60 + resp'.target.time_start[2]
              hi == resp'.target.time_end[1] * 60 + resp'.target.time_end[2]
          IN /\ created = {items[j] : j \in 1..Len(items)}
             /\ Len(items) = Cardinality(created)
             /\ \A s \in DOMAIN slots : slots[s].exists => slots'[s] = slots[s]
             /\ IF d = 0
                THEN /\ Len(items) = 1
                     /\ slots'[items[1]].start_time = lo
                     /\ slots'[items[1]].end_time = hi
                ELSE /\ Len(items) = (hi - lo) \div d
                     /\ \A j \in 1..Len(items) :
                           /\ slots'[items[j]].start_time = lo + (j - 1) * d
                           /\ slots'[items[j]].end_time = lo + j * d
                           /\ slots'[items[j]].end_time <= hi
      ]_vars

\* C15 witness: a bulk request over 13:50-14:35 with d = 20 has created two
\* slots, the second one 14:10-14:30, and dropped the remainder.
C15_Witness ==
    /\ resp.op = "bulk"
    /\ resp.status = 201
    /\ Len(resp.items) = 2
    /\ resp.target.duration = 20
    /\ \E s \in DOMAIN slots :
          slots[s].exists /\ slots[s].start_time = 850 /\ slots[s].end_time = 870

\* C16: every slot created by create or bulkCreate with slot_type =
\* individual is persisted with max_attendees = 1 whatever max_attendees was
\* requested, and a slot created with slot_type = group keeps the requested
\* max_attendees.
C16_IndividualClamp ==
    [][/\ (resp'.op = "create" /\ resp'.status = 201) =>
             \A start \in StartTimes, end \in EndTimes, st \in SlotTypes,
                ac \in AccessTypes, m \in 1..MaxCap :
                CreateSlot(resp'.target, start, end, st, ac, m) =>
                    /\ slots'[resp'.target].slot_type = st
                    /\ slots'[resp'.target].max_attendees =
                          IF st = "individual" THEN 1 ELSE m
       /\ (resp'.op = "bulk" /\ resp'.status = 201) =>
             \A j \in 1..Len(resp'.items) :
                /\ slots'[resp'.items[j]].slot_type = resp'.target.slot_type
                /\ slots'[resp'.items[j]].max_attendees =
                      IF resp'.target.slot_type = "individual" THEN 1
                      ELSE resp'.target.max_attendees
      ]_vars

\* C16 witness: a bulk request for individual slots with max_attendees = 2
\* has created slots with max_attendees = 1.
C16_Witness ==
    /\ resp.op = "bulk"
    /\ resp.status = 201
    /\ resp.target.slot_type = "individual"
    /\ resp.target.max_attendees = 2
    /\ Len(resp.items) > 0
    /\ \A j \in 1..Len(resp.items) : slots[resp.items[j]].max_attendees = 1

\* C17: in every reachable state every slot with slot_type = individual has
\* max_attendees = 1.
C17_IndividualHasOne ==
    \A s \in DOMAIN slots :
        (slots[s].exists /\ slots[s].slot_type = "individual")
            => slots[s].max_attendees = 1

\* C18: in every reachable state every persisted slot has end_time strictly
\* greater than start_time.
C18_EndAfterStart ==
    \A s \in DOMAIN slots : slots[s].exists => slots[s].end_time > slots[s].start_time

\* C19 as claimed: while a slot holds more active bookings than its lowered
\* max_attendees, every book() and every accept of a pending invitation on
\* it fails with the capacity error.
C19_OverCapacityIsCapacityError ==
    \A s \in SlotIds :
        (slots[s].exists /\ ConfirmedCount(s) > slots[s].max_attendees) =>
            /\ \A e \in Emails : BookCheck(s, e) = <<400, DetailNoSpots>>
            /\ \A i \in InvitationIds :
                  (invitations[i].slot_id = s /\ invitations[i].status = "pending")
                      => RespondCheck(i, "accept") = <<400, DetailNoSpotsInvite>>

\* C19 as amended: an update of max_attendees cancels or removes no booking;
\* while the slot's active count is not below max_attendees no book() and no
\* accept passes its checks: book() fails with the capacity error on a
\* public slot and with Forbidden on an invited one, accept of a pending
\* invitation fails with the capacity error if the slot has not started and
\* with the past-slot error if it has.
C19_LoweredCapacity ==
    [][/\ resp'.op = "update" => bookings' = bookings
       /\ \A s \in SlotIds :
             (slots[s].exists /\ ConfirmedCount(s) >= slots[s].max_attendees) =>
                 /\ \A e \in Emails :
                       BookCheck(s, e) =
                           IF slots[s].access_type # "public"
                           THEN <<403, DetailInvitedOnly>>
                           ELSE <<400, DetailNoSpots>>
                 /\ \A i \in InvitationIds :
                       (invitations[i].slot_id = s /\ invitations[i].status = "pending")
                           => RespondCheck(i, "accept") =
                                 IF slots[s].start_time < now THEN <<400, DetailPast>>
                                 ELSE <<400, DetailNoSpotsInvite>>
                 /\ \A p \in Procs :
                       ~(/\ pc[p] = Idle
                         /\ pc'[p].op \in {"book", "accept"}
                         /\ IF pc'[p].op = "book" THEN pc'[p].slot_id = s
                            ELSE invitations[pc'[p].invitation].slot_id = s)
      ]_vars

\* C19 witness: book() was refused with the capacity error on a slot that
\* holds more active bookings than its max_attendees allows.
C19_Witness ==
    /\ resp.op = "book"
    /\ resp.status = 400
    /\ resp.detail = DetailNoSpots
    /\ ConfirmedCount(resp.target[1]) > slots[resp.target[1]].max_attendees
    /\ \A b \in ActiveConfirmed(resp.target[1]) :
          bookings[b].confirmed /\ bookings[b].cancelled_at = Null

\* C20: a booking's reminder flag is true only if a dispatch of that
\* reminder to it returned success; after a failed dispatch the flag stays
\* false, and each cycle's query selects every booking that is still
\* active, has its slot start inside the window and has its flag false.
C20_FlagOnlyOnSuccess ==
    [][/\ \A b \in BookingIds :
             /\ bookings'[b].reminder_24h_sent => sent'[b].r24 >= 1
             /\ bookings'[b].reminder_1h_sent => sent'[b].r1 >= 1
             /\ b \in sched'.flag24 => sent'[b].r24 >= 1
             /\ b \in sched'.flag1 => sent'[b].r1 >= 1
       /\ (sched.pc = "idle" /\ sched'.pc = "loop24") =>
             \A b \in BookingIds :
                (/\ ~bookings[b].reminder_24h_sent
                 /\ bookings[b].confirmed
                 /\ bookings[b].cancelled_at = Null
                 /\ slots[bookings[b].slot_id].exists
                 /\ slots[bookings[b].slot_id].start_time >= now + Window24Lo
                 /\ slots[bookings[b].slot_id].start_time <= now + Window24Hi)
                    => b \in sched'.todo
       /\ (sched.pc = "loop24" /\ sched'.pc = "loop1h") =>
             \A b \in BookingIds :
                (/\ ~bookings[b].reminder_1h_sent
                 /\ bookings[b].confirmed
                 /\ bookings[b].cancelled_at = Null
                 /\ slots[bookings[b].slot_id].exists
                 /\ slots[bookings[b].slot_id].start_time >= sched.now + Window1Lo
                 /\ slots[bookings[b].slot_id].start_time <= sched.now + Window1Hi)
                    => b \in sched'.todo
      ]_vars

\* C20 witness: a second cycle has selected a booking again whose 24h
\* dispatch failed in the first cycle, while another booking of the first
\* cycle has its flag set.
C20_Witness ==
    /\ sched.cycles = 1
    /\ sched.pc = "loop24"
    /\ \E b \in sched.todo : sent[b].r24 = 0 /\ ~bookings[b].reminder_24h_sent
    /\ \E b \in BookingIds : bookings[b].reminder_24h_sent /\ sent[b].r24 = 1

\* C21: within one cycle a failed dispatch for one booking does not stop the
\* cycle: each pass of a loop takes one booking off the list and leaves the
\* others on it, a loop ends only when its list is empty, and at the end of
\* the cycle every booking whose dispatch succeeded has its flag persisted
\* as true.
C21_FailureIsolated ==
    [][/\ (sched.pc = sched'.pc /\ sched.pc # "idle" /\ sched' # sched) =>
             \E b \in sched.todo : sched'.todo = sched.todo \ {b}
       /\ (sched.pc # "idle" /\ sched'.pc # sched.pc) => sched.todo = {}
       /\ (sched.pc = "loop1h" /\ sched'.pc = "idle") =>
             /\ \A b \in sched.flag24 : bookings'[b].reminder_24h_sent
             /\ \A b \in sched.flag1 : bookings'[b].reminder_1h_sent
      ]_vars

\* C22: when delete(slot) commits, every booking that is active on the slot
\* and every invitation that is pending on it has been sent the cancellation
\* notification by this request, and afterwards no booking and no invitation
\* references the slot.
C22_DeleteNotifiesAll ==
    [][\A p \in Procs :
          (pc[p].op = "delete" /\ pc'[p] = Idle /\ resp'.status = 204) =>
              LET s == pc[p].slot_id IN
              /\ ActiveConfirmed(s) \subseteq pc[p].bookings
              /\ PendingInvitations(s) \subseteq pc[p].invitations
              /\ \A b \in DOMAIN bookings' : bookings'[b].slot_id # s
              /\ \A i \in DOMAIN invitations' : invitations'[i].slot_id # s
      ]_vars

\* C23: the rejections of book() and cancel() are told apart by their error
\* kind (the status of the answer): a full slot, a duplicate active
\* (slot, email) and a missed cancellation deadline are never reported with
\* the same kind.
C23_KindsDistinct ==
    \A s \in SlotIds, e \in Emails, b \in BookingIds :
        (/\ slots[s].exists
         /\ slots[s].access_type = "public"
         /\ bookings[b].slot_id = s
         /\ bookings[b].cancelled_at = Null
         /\ now > slots[s].start_time - CancelDeadlineMinutes
         /\ \/ ConfirmedCount(s) >= slots[s].max_attendees
            \/ ExistingBooking(s, e) # {})
        => BookCheck(s, e)[1] # CancelCheck(s, b)[1]

\* C24: a cycle running at time t selects a booking for the 24h reminder
\* exactly when it is active and confirmed, its reminder_24h_sent is false
\* and its slot starts in [t + 23h, t + 25h), the upper end excluded; likewise
\* for the 1h reminder with [t + 50min, t + 70min) and reminder_1h_sent.
C24_HalfOpenWindows ==
    [][/\ (sched.pc = "idle" /\ sched'.pc = "loop24") =>
             sched'.todo =
                {b \in BookingIds :
                    /\ bookings[b].confirmed
                    /\ bookings[b].cancelled_at = Null
                    /\ ~bookings[b].reminder_24h_sent
                    /\ slots[bookings[b].slot_id].exists
                    /\ slots[bookings[b].slot_id].start_time >= sched'.now + Window24Lo
                    /\ slots[bookings[b].slot_id].start_time < sched'.now + Window24Hi}
       /\ (sched.pc = "loop24" /\ sched'.pc = "loop1h") =>
             sched'.todo =
                {b \in BookingIds :
                    /\ bookings[b].confirmed
                    /\ bookings[b].cancelled_at = Null
                    /\ ~bookings[b].reminder_1h_sent
                    /\ slots[bookings[b].slot_id].exists
                    /\ slots[bookings[b].slot_id].start_time >= sched.now + Window1Lo
                    /\ slots[bookings[b].slot_id].start_time < sched.now + Window1Hi}
      ]_vars

\* C25: with the application running, every booking that exists more than
\* 25 hours before its slot's start and stays active is eventually sent its
\* 24h reminder and its 1h reminder.
C25_RemindersEventuallySent ==
    \A b \in 1..MaxBookings :
        (IF b \in BookingIds
         THEN slots[bookings[b].slot_id].start_time > now + Window24Hi
         ELSE FALSE)
        ~> (IF b \in BookingIds
            THEN \/ bookings[b].cancelled_at # Null
                 \/ sent[b].r24 >= 1 /\ sent[b].r1 >= 1
            ELSE FALSE)

\* C26: every active booking on a slot whose access_type is invited has a
\* non-null invitation_id that refers to an accepted invitation for that slot.
C26_InvitedBookingsHaveInvitation ==
    \A b \in BookingIds :
        (/\ bookings[b].confirmed
         /\ bookings[b].cancelled_at = Null
         /\ slots[bookings[b].slot_id].exists
         /\ slots[bookings[b].slot_id].access_type = "invited")
        => /\ bookings[b].invitation_id # Null
           /\ invitations[bookings[b].invitation_id].status = "accepted"
           /\ invitations[bookings[b].invitation_id].slot_id = bookings[b].slot_id

\* C27: every booking has confirmed = true exactly when cancelled_at is null.
C27_ConfirmedIffNotCancelled ==
    \A b \in BookingIds : bookings[b].confirmed <=> (bookings[b].cancelled_at = Null)

\* C27 witness: a cancelled booking beside an active one created by an
\* accepted invitation.
C27_Witness ==
    \E b, c \in BookingIds :
        /\ bookings[b].cancelled_at # Null /\ ~bookings[b].confirmed
        /\ bookings[c].cancelled_at = Null /\ bookings[c].confirmed
        /\ bookings[c].invitation_id # Null

\* C28: every rejected book(), cancel(), invite() or respondByToken() call
\* (one answered with an error status) leaves the slots, the bookings and the
\* invitations, with all their fields, exactly as they were before the call.
C28_RejectedCallsChangeNothing ==
    [][(/\ resp'.op \in {"book", "cancel", "invite", "respond"}
        /\ resp'.status >= 400)
       => /\ slots' = slots
          /\ bookings' = bookings
          /\ invitations' = invitations
      ]_vars

\* C28 witness: an accept was refused because the slot is full, while one
\* invitation is declined and another is still pending.
C28_Witness ==
    /\ resp.op = "respond"
    /\ resp.status = 400
    /\ resp.detail = DetailNoSpotsInvite
    /\ \E i \in InvitationIds : invitations[i].status = "declined"
    /\ \E i \in InvitationIds : invitations[i].status = "pending"
    /\ \E b \in BookingIds : bookings[b].cancelled_at = Null

\* C29: a cancelled booking no longer counts against the capacity or against
\* the one-booking-per-email rule: right after a successful cancel() on a
\* full public slot that has not started, book() on that slot passes its
\* checks for the cancelled booking's email and for every email that had
\* no active booking on the slot.
C29_CancelFreesPlace ==
    [][\A s \in SlotIds, b \in BookingIds :
          (/\ resp'.op = "cancel"
           /\ resp'.status = 200
           /\ resp'.target = <<s, b>>
           /\ slots[s].exists
           /\ slots[s].access_type = "public"
           /\ slots[s].start_time >= now
           /\ ConfirmedCount(s) = slots[s].max_attendees)
          => \A e \in Emails :
                (e = bookings[b].email \/ ExistingBooking(s, e) = {})
                => BookCheck(s, e)' = <<201, "">>
      ]_vars

\* C30: update(slot) leaves every booking as it was (reminder_24h_sent,
\* reminder_1h_sent, confirmed and cancelled_at included), no step turns a
\* reminder flag from true to false, and no cycle's query selects a booking
\* for a reminder whose flag is already true, also after the slot was moved
\* to a new start time.
C30_MovedSlotKeepsFlags ==
    [][/\ resp'.op = "update" => bookings' = bookings /\ invitations' = invitations
       /\ \A b \in BookingIds :
             /\ bookings[b].reminder_24h_sent => bookings'[b].reminder_24h_sent
             /\ bookings[b].reminder_1h_sent => bookings'[b].reminder_1h_sent
       /\ (sched.pc = "idle" /\ sched'.pc = "loop24") =>
             \A b \in sched'.todo : ~bookings[b].reminder_24h_sent
       /\ (sched.pc = "loop24" /\ sched'.pc = "loop1h") =>
             \A b \in sched'.todo : ~bookings[b].reminder_1h_sent
      ]_vars

\* C30 witness: the slot was moved from 1600 to 1660 after a cycle at time
\* 100 had set a booking's 24h flag (at that time only a start of 1600 lies
\* inside the 24h window), and the flag is still true after the update.
C30_Witness ==
    /\ resp.op = "update"
    /\ now = 100
    /\ slots[1].start_time = 1660
    /\ \E b \in BookingIds : bookings[b].reminder_24h_sent /\ bookings[b].cancelled_at = Null
    /\ \E b \in BookingIds : ~bookings[b].reminder_24h_sent

====
